---- MODULE Spec2Model ----
(***************************************************************************)
(* Model of the job execution engine of ensam-cloud: the submission routes *)
(* (src/src/api/routes/jobs.py), the Docker supervisor                     *)
(* (src/src/services/executor.py), the cancel routes (jobs.py, admin.py)   *)
(* and the script analyzer (src/src/services/script_analyzer.py).          *)
(*                                                                         *)
(* One job is followed from submission to its end.  All routes and the     *)
(* background task are coroutines of one asyncio event loop: control       *)
(* passes from one to another only at a suspending await.  A submission    *)
(* route commits the job and schedules the background task, which starts   *)
(* after the route's response; other requests can be served in between.    *)
(* The task suspends in asyncio.sleep (polling loop, simulated execution); *)
(* executor.cancel_job contains no suspending await, so a cancel route     *)
(* runs from its query to its commit as one step.  The Docker daemon and   *)
(* the sandbox are separate processes: the sandbox may exit at any time.   *)
(***************************************************************************)
EXTENDS Integers, Sequences, FiniteSets, TLC

(***************************************************************************)
(* Bounds of the model.                                                    *)
(***************************************************************************)
MaxNow == 2
MaxIndicators == 2
MaxSockets == 2
MaxPublish == 1
MaxInfo == 1
MaxLines == 2

(***************************************************************************)
(* Optional values (Python None / a value).                                *)
(***************************************************************************)
None == {}
Some(v) == {v}
Get(o) == CHOOSE v \in o : TRUE

Min(a, b) == IF a <= b THEN a ELSE b
Max(a, b) == IF a >= b THEN a ELSE b

(***************************************************************************)
(* core/config.py: the resource profile table.                             *)
(***************************************************************************)
RESOURCE_PROFILES ==
  [small  |-> [cpu_shares |-> 512,  memory_mb |-> 512,  timeout |-> 60,   gpu |-> FALSE],
   medium |-> [cpu_shares |-> 1024, memory_mb |-> 2048, timeout |-> 300,  gpu |-> FALSE],
   large  |-> [cpu_shares |-> 2048, memory_mb |-> 4096, timeout |-> 900,  gpu |-> FALSE],
   gpu    |-> [cpu_shares |-> 2048, memory_mb |-> 6144, timeout |-> 1800, gpu |-> TRUE]]

ProfileNames == DOMAIN RESOURCE_PROFILES

(***************************************************************************)
(* schemas.py: the enumerations of the JSON submission request and the     *)
(* range of its timeout field.                                             *)
(***************************************************************************)
ExecutionModeEnum == {"cpu", "gpu", "auto"}
ResourceProfileEnum == {"small", "medium", "large", "gpu", "auto"}
TimeoutGe == 10
TimeoutLe == 3600

JobStatus == {"pending", "queued", "running", "success", "failed", "cancelled", "timeout"}
Terminal == {"success", "failed", "cancelled", "timeout"}

(***************************************************************************)
(* Custom configuration.  A config is a record of optional integer fields  *)
(* and a flag telling whether the dictionary carries one more key whose    *)
(* value is a nested JSON object.  json.dumps turns it into text, modelled *)
(* as a sequence of tokens; the executor finds it back with the lazy       *)
(* regular expression CUSTOM_CONFIG:({.*?}) and parses it with json.loads. *)
(***************************************************************************)
ConfigKeys == <<"memory_mb", "cpu_shares", "timeout">>

NoConfig == [memory_mb |-> None, cpu_shares |-> None, timeout |-> None, extra |-> FALSE]

\* Python truthiness of the dictionary: None and {} are both false.
Truthy(cfg) ==
  \/ cfg.extra
  \/ \E i \in 1..Len(ConfigKeys) : cfg[ConfigKeys[i]] # None

Tok(k, v) == [k |-> k, v |-> v]
LBrace == Tok("{", 0)
RBrace == Tok("}", 0)

RECURSIVE DumpKeys(_, _)
DumpKeys(cfg, i) ==
  IF i > Len(ConfigKeys) THEN <<>>
  ELSE (IF cfg[ConfigKeys[i]] = None THEN <<>>
        ELSE <<Tok(ConfigKeys[i], 0), Tok("int", Get(cfg[ConfigKeys[i]]))>>)
       \o DumpKeys(cfg, i + 1)

json_dumps(cfg) ==
  <<LBrace>> \o DumpKeys(cfg, 1)
             \o (IF cfg.extra THEN <<Tok("extra", 0), LBrace, RBrace>> ELSE <<>>)
             \o <<RBrace>>

\* re.search(r'CUSTOM_CONFIG:({.*?})', text): the text after the marker up
\* to and including the FIRST closing brace; <<>> when there is no marker.
RECURSIVE FirstRBrace(_, _)
FirstRBrace(toks, i) ==
  IF i > Len(toks) THEN 0
  ELSE IF toks[i] = RBrace THEN i
  ELSE FirstRBrace(toks, i + 1)

re_search_custom_config(text) ==
  IF FirstRBrace(text, 1) = 0 THEN <<>>
  ELSE SubSeq(text, 1, FirstRBrace(text, 1))

\* json.loads on the matched text: it is a JSON object exactly when it is
\* an opening brace, key/integer pairs and a closing brace.
json_ok(toks) ==
  /\ Len(toks) >= 2
  /\ toks[1] = LBrace
  /\ toks[Len(toks)] = RBrace
  /\ (Len(toks) - 2) % 2 = 0
  /\ \A i \in 2..(Len(toks) - 1) :
       IF i % 2 = 0 THEN toks[i].k \notin {"{", "}", "int"}
       ELSE toks[i].k = "int"

json_has(toks, key) == \E i \in 2..(Len(toks) - 1) : toks[i].k = key

json_get(toks, key) ==
  toks[1 + CHOOSE i \in 2..(Len(toks) - 1) : toks[i].k = key].v

(***************************************************************************)
(* executor.py: DockerExecutor.get_resource_limits.                        *)
(* analysis_reasoning is kept as the text that follows the CUSTOM_CONFIG:  *)
(* marker (<<>> when the marker is absent or the reasoning is None).       *)
(***************************************************************************)
ClampNoFloor(v, lo, hi) == Min(v, hi)

Clamp(v, lo, hi) == Max(lo, Min(v, hi))

get_resource_limits_fallback_small(profile, analysis_reasoning) ==
  LET p == IF profile \in DOMAIN RESOURCE_PROFILES THEN profile ELSE "small"
      base == RESOURCE_PROFILES[p]
      m == re_search_custom_config(analysis_reasoning)
  IN  IF m # <<>> /\ json_ok(m)
      THEN [base EXCEPT
              !.memory_mb  = IF json_has(m, "memory_mb")
                             THEN Clamp(json_get(m, "memory_mb"), 256, 8192) ELSE @,
              !.cpu_shares = IF json_has(m, "cpu_shares")
                             THEN Clamp(json_get(m, "cpu_shares"), 256, 4096) ELSE @,
              !.timeout    = IF json_has(m, "timeout")
                             THEN Clamp(json_get(m, "timeout"), 10, 3600) ELSE @]
      ELSE base

get_resource_limits(profile, analysis_reasoning) ==
  LET p == IF profile \in DOMAIN RESOURCE_PROFILES THEN profile ELSE "medium"
      base == RESOURCE_PROFILES[p]
      m == re_search_custom_config(analysis_reasoning)
  IN  IF m # <<>> /\ json_ok(m)
      THEN [base EXCEPT
              !.memory_mb  = IF json_has(m, "memory_mb")
                             THEN Clamp(json_get(m, "memory_mb"), 256, 8192) ELSE @,
              !.cpu_shares = IF json_has(m, "cpu_shares")
                             THEN Clamp(json_get(m, "cpu_shares"), 256, 4096) ELSE @,
              !.timeout    = IF json_has(m, "timeout")
                             THEN Clamp(json_get(m, "timeout"), 10, 3600) ELSE @]
      ELSE base

(***************************************************************************)
(* script_analyzer.py.  A script is abstracted to what the analyzer        *)
(* extracts from it: whether it is blank, and the numbers of GPU, memory   *)
(* and compute indicators found.                                           *)
(***************************************************************************)
Scripts ==
  [blank : {FALSE}, gpu : 0..MaxIndicators, mem : 0..MaxIndicators, comp : 0..MaxIndicators]
  \cup {[blank |-> TRUE, gpu |-> 0, mem |-> 0, comp |-> 0]}

\* The confidence is kept in hundredths (0.8 is 80) and the reasoning as
\* the sequence of its parts; the part that lists the detected libraries,
\* which the abstraction of a script does not carry, is left out.
_determine_profile_total_first(gpu_n, mem_n, comp_n) ==
  LET gpu_score == gpu_n * 3
      memory_score == mem_n * 2
      compute_score == comp_n * 2
      total_score == gpu_score + memory_score + compute_score
  IN  [execution_mode |-> IF gpu_score >= 3 THEN "gpu" ELSE "cpu",
       recommended_profile |->
         IF total_score >= 8 THEN "large"
         ELSE IF gpu_score >= 3 THEN "gpu"
         ELSE IF total_score >= 4 THEN "medium"
         ELSE IF memory_score >= 2 THEN "medium"
         ELSE "small",
       confidence |-> 80,
       reasoning |-> <<>>]

_determine_profile(gpu_n, mem_n, comp_n) ==
  LET gpu_score == gpu_n * 3
      memory_score == mem_n * 2
      compute_score == comp_n * 2
      total_score == gpu_score + memory_score + compute_score
  IN  [execution_mode |-> IF gpu_score >= 3 THEN "gpu" ELSE "cpu",
       recommended_profile |->
         IF gpu_score >= 3 THEN "gpu"
         ELSE IF total_score >= 8 THEN "large"
         ELSE IF total_score >= 4 THEN "medium"
         ELSE IF memory_score >= 2 THEN "medium"
         ELSE "small",
       confidence |->
         IF gpu_score >= 3 THEN Min(90, 50 + gpu_score * 10)
         ELSE IF total_score >= 8 THEN Min(85, 50 + total_score * 5)
         ELSE IF total_score >= 4 THEN Min(80, 50 + total_score * 5)
         ELSE IF memory_score >= 2 THEN 70
         ELSE 80,
       reasoning |->
         (IF gpu_score >= 3 THEN <<"gpu_recommended">> ELSE <<>>)
         \o <<IF gpu_score >= 3 THEN "gpu_profile"
              ELSE IF total_score >= 8 THEN "heavy_computation"
              ELSE IF total_score >= 4 THEN "moderate_needs"
              ELSE IF memory_score >= 2 THEN "memory_intensive"
              ELSE "simple_script">>]

analyze_without_fallback(script, gpu_avail) ==
  IF script.blank
  THEN [execution_mode |-> "cpu", recommended_profile |-> "small",
        confidence |-> 100, reasoning |-> <<"empty_script">>]
  ELSE _determine_profile(script.gpu, script.mem, script.comp)

analyze(script, gpu_avail) ==
  IF script.blank
  THEN [execution_mode |-> "cpu", recommended_profile |-> "small",
        confidence |-> 100, reasoning |-> <<"empty_script">>]
  ELSE LET d == _determine_profile(script.gpu, script.mem, script.comp)
       IN  IF d.execution_mode = "gpu" /\ ~gpu_avail
           THEN [d EXCEPT
                   !.execution_mode = "cpu",
                   !.recommended_profile = IF @ = "gpu" THEN "large" ELSE @,
                   !.reasoning = Append(@, "gpu_fallback")]
           ELSE d

(***************************************************************************)
(* State.                                                                  *)
(*   job                 the row of the jobs table (models.py: Job)        *)
(*   request             the submission request as it was received         *)
(*   pc                  position of the background task                   *)
(*   now                 the wall clock (datetime.utcnow)                  *)
(*   running_containers  the executor's registry, as the set of its keys   *)
(*   container           the sandbox as the Docker daemon holds it         *)
(*   container_exit      the sandbox's State.ExitCode                      *)
(*   timeout, limits     locals of execute_job                             *)
(*   start_time          when the supervisor began to wait: start_time of  *)
(*                       _wait_for_container, or the time at which         *)
(*                       _simulate_execution went to sleep                 *)
(*   result              the result dictionary of _wait_for_container      *)
(*   is_available        executor.client is not None                       *)
(*   gpu_available       executor.gpu_available                            *)
(*   rt_fault            the runtime call that raised in the last step     *)
(*   stop_issued         container.stop was called by the polling loop     *)
(*   cancelled_running   a cancel route ran while the status was running   *)
(*   cancelled_unstarted a cancel route ran while pending or queued        *)
(*   left                the statuses the job has held and left            *)
(*   docker_calls        the calls execute_job has made to the runtime:    *)
(*                       containers.run, images.pull, container.remove,    *)
(*                       and whether a run raised a GPU error; stats tells *)
(*                       whether _collect_metrics was called and how it    *)
(*                       ended ("none", "collected", "failed")             *)
(*   job_metrics         the number of rows of the job_metrics table       *)
(*   _lock               executor._lock: "free" or the accessor holding it *)
(*   at                  position of each accessor of the registry in its  *)
(*                       sections guarded by the lock (see Registry below) *)
(*   last_analysis       the ScriptAnalysis the /analyze route returned    *)
(*   determined          what _determine_profile returned to analyze       *)
(*   active_connections  manager.active_connections: job id to the list of *)
(*                       its websockets (see Log relay below)              *)
(*   ws                  for each websocket, the position of its handler   *)
(*                       websocket_job_logs, the status it read at the     *)
(*                       start and whether the client is still there       *)
(*   received            the events sent to each websocket, in order       *)
(*   sending             the call of manager.send_log or send_status in    *)
(*                       progress, or the last one                         *)
(*   output              the lines the sandbox has printed                 *)
(*   log_buffer          the number of them that stream_logs has captured  *)
(*   published           the number of calls of on_log                     *)
(*   log_file            the lines of the job's output.log, if it exists   *)
(***************************************************************************)
VARIABLES job, request, pc, now, running_containers, container, container_exit,
          timeout, limits, start_time, result, is_available, gpu_available,
          rt_fault, stop_issued, cancelled_running, cancelled_unstarted, left,
          docker_calls, job_metrics, _lock, at, last_analysis, determined,
          active_connections, ws, received, sending,
          output, log_buffer, published, log_file

vars == <<job, request, pc, now, running_containers, container, container_exit,
          timeout, limits, start_time, result, is_available, gpu_available,
          rt_fault, stop_issued, cancelled_running, cancelled_unstarted, left,
          docker_calls, job_metrics, _lock, at, last_analysis, determined,
          active_connections, ws, received, sending,
          output, log_buffer, published, log_file>>

\* The lock of the registry and the positions of its accessors.
lock_vars == <<_lock, at>>

\* The result of the /analyze route.
analyzer_vars == <<last_analysis, determined>>

\* The log relay: the connection manager and the websocket handlers.
relay_vars == <<active_connections, ws, received, sending>>

\* The output of the sandbox and what becomes of it.
log_vars == <<output, log_buffer, published, log_file>>

\* The variables that the routes of a job leave alone.
aside_vars == <<lock_vars, analyzer_vars, relay_vars, log_vars>>

JobId == 1

\* The positions at which the background task is suspended (or not yet
\* started, or finished): the only points where a route can run.
YieldPoints == {"scheduled", "sleep", "simulating", "done"}

Created == pc # "unsubmitted"

NoJob ==
  [status |-> "pending", execution_mode |-> "cpu", resource_profile |-> "medium",
   timeout_seconds |-> 300, analysis_reasoning |-> <<>>,
   queued_at |-> None, started_at |-> None, finished_at |-> None,
   duration_seconds |-> None, queue_time_seconds |-> None,
   exit_code |-> None, error_message |-> None,
   container_id |-> None, gpu_used |-> FALSE]

NoRequest ==
  [route |-> "none", code |-> [blank |-> TRUE, gpu |-> 0, mem |-> 0, comp |-> 0],
   execution_mode |-> "auto", resource_profile |-> "auto", timeout |-> 300,
   custom_config |-> NoConfig]

\* The methods of DockerExecutor that read or write running_containers.
Accessors == {"execute_job", "cancel_job", "get_container_logs", "get_running_job_ids"}

NoCalls == [run |-> 0, pull |-> 0, remove |-> 0, gpu_error |-> FALSE, stats |-> "none"]

NoResult == [exit_code |-> -1, timeout |-> FALSE, cancelled |-> FALSE]

\* The websockets that connect for the job's logs, each one once.
Sockets == 1..MaxSockets

NoConnections == [j \in {} |-> <<>>]

NoHandler == [pc |-> "none", initial_status |-> "none", alive |-> TRUE, last_position |-> 0]

NoSending ==
  [pc |-> "idle", n |-> 0, type |-> "none", target |-> 0, i |-> 0,
   disconnected |-> <<>>, detached |-> FALSE, subscribers |-> <<>>]

NoAnalysis ==
  [execution_mode |-> "none", recommended_profile |-> "none",
   confidence |-> 0, reasoning |-> <<>>]

\* The statuses left, after a write of the status column.
LeftAfter(old, new) == IF new # old THEN left \cup {old} ELSE left

Init ==
  /\ job = NoJob
  /\ request = NoRequest
  /\ pc = "unsubmitted"
  /\ now = 0
  /\ running_containers = {}
  /\ container = "none"
  /\ container_exit = 0
  /\ timeout = 0
  /\ limits = RESOURCE_PROFILES["medium"]
  /\ start_time = 0
  /\ result = NoResult
  /\ is_available \in BOOLEAN
  /\ gpu_available \in BOOLEAN
  /\ (gpu_available => is_available)
  /\ rt_fault = "none"
  /\ stop_issued = FALSE
  /\ cancelled_running = FALSE
  /\ cancelled_unstarted = FALSE
  /\ left = {}
  /\ docker_calls = NoCalls
  /\ job_metrics = 0
  /\ _lock = "free"
  /\ at = [t \in Accessors |-> 0]
  /\ last_analysis = NoAnalysis
  /\ determined = NoAnalysis
  /\ active_connections = NoConnections
  /\ ws = [w \in Sockets |-> NoHandler]
  /\ received = [w \in Sockets |-> <<>>]
  /\ sending = NoSending
  /\ output = <<>>
  /\ log_buffer = 0
  /\ published = 0
  /\ log_file = None

(***************************************************************************)
(* Submission routes (jobs.py).                                            *)
(***************************************************************************)
\* The JSON route: pydantic has validated the enumerations and the timeout.
submit_job(req) ==
  /\ pc = "unsubmitted"
  /\ req.route = "run"
  /\ LET ga == IF is_available THEN gpu_available ELSE FALSE
         analysis == analyze(req.code, ga)
         resource_profile == IF req.resource_profile = "auto"
                             THEN analysis.recommended_profile
                             ELSE req.resource_profile
         exec_mode == IF req.resource_profile # "auto" /\ resource_profile = "gpu"
                      THEN "gpu"
                      ELSE analysis.execution_mode
         cfg == req.custom_config
         timeout_seconds == IF Truthy(cfg) /\ cfg.timeout # None
                            THEN Max(10, Min(Get(cfg.timeout), 3600))
                            ELSE req.timeout
     IN  job' = [NoJob EXCEPT
                   !.status = "pending",
                   !.execution_mode = exec_mode,
                   !.resource_profile = resource_profile,
                   !.timeout_seconds = timeout_seconds,
                   !.analysis_reasoning = IF Truthy(cfg) THEN json_dumps(cfg) ELSE <<>>]
  /\ request' = req
  /\ pc' = "scheduled"
  /\ UNCHANGED <<now, running_containers, container, container_exit, timeout, limits,
                 start_time, result, is_available, gpu_available, rt_fault,
                 stop_issued, cancelled_running, cancelled_unstarted, left>>
  /\ UNCHANGED aside_vars
  /\ UNCHANGED job_metrics
  /\ UNCHANGED docker_calls

\* The upload route: the form fields are stored as they come.
upload_and_run(req) ==
  /\ pc = "unsubmitted"
  /\ req.route = "upload"
  /\ job' = [NoJob EXCEPT
               !.status = "pending",
               !.execution_mode = req.execution_mode,
               !.resource_profile = req.resource_profile,
               !.timeout_seconds = req.timeout]
  /\ request' = req
  /\ pc' = "scheduled"
  /\ UNCHANGED <<now, running_containers, container, container_exit, timeout, limits,
                 start_time, result, is_available, gpu_available, rt_fault,
                 stop_issued, cancelled_running, cancelled_unstarted, left>>
  /\ UNCHANGED aside_vars
  /\ UNCHANGED job_metrics
  /\ UNCHANGED docker_calls

(***************************************************************************)
(* Background task (jobs.py: run_job_background) and supervisor            *)
(* (executor.py: execute_job, _wait_for_container, _simulate_execution).   *)
(* The task runs without suspending from its start to the first            *)
(* asyncio.sleep; the positions queued, launch and poll only make the      *)
(* intermediate commits visible, no route runs there.                      *)
(***************************************************************************)
Duration(j) == IF j.started_at # None THEN Some(now - Get(j.started_at)) ELSE j.duration_seconds

run_job_background ==
  /\ pc = "scheduled"
  /\ job' = [job EXCEPT !.status = "queued", !.queued_at = Some(now)]
  /\ left' = LeftAfter(job.status, "queued")
  /\ pc' = "queued"
  /\ UNCHANGED <<request, now, running_containers, container, container_exit,
                 timeout, limits, start_time, result, is_available, gpu_available,
                 rt_fault, stop_issued, cancelled_running, cancelled_unstarted>>
  /\ UNCHANGED aside_vars
  /\ UNCHANGED job_metrics
  /\ UNCHANGED docker_calls

ExecutionError_without_message(j) ==
  [j EXCEPT !.status = "failed",
            !.finished_at = Some(now),
            !.duration_seconds = Duration(j)]

\* The except handlers of execute_job.
ExecutionError(j) ==
  [j EXCEPT !.status = "failed",
            !.error_message = Some("execution_error"),
            !.finished_at = Some(now),
            !.duration_seconds = Duration(j)]

mark_running_without_started_at(j) == [j EXCEPT !.status = "running"]

\* execute_job and _simulate_execution: the status becomes running and
\* started_at is stored.
mark_running(j) == [j EXCEPT !.status = "running", !.started_at = Some(now)]

\* execute_job up to the commit of the status running: the job directory
\* is prepared (prep_ok: the file system lets it), then the status becomes
\* running, before the sandbox is started.  Without a Docker client the
\* execution is simulated.
execute_job_begin(prep_ok) ==
  /\ pc = "queued"
  /\ IF ~is_available
     THEN /\ job' = mark_running(job)
          /\ rt_fault' = rt_fault
          /\ start_time' = now
          /\ pc' = "simulating"
     ELSE IF ~prep_ok
     THEN /\ job' = ExecutionError(job)
          /\ rt_fault' = "prepare"
          /\ start_time' = start_time
          /\ pc' = "done"
     ELSE /\ job' = [mark_running(job) EXCEPT
                       !.queue_time_seconds = IF job.queued_at # None
                                              THEN Some(now - Get(job.queued_at)) ELSE @]
          /\ rt_fault' = rt_fault
          /\ start_time' = start_time
          /\ pc' = "launch"
  /\ left' = LeftAfter(job.status, job'.status)
  /\ UNCHANGED <<request, now, running_containers, container, container_exit,
                 timeout, limits, result, is_available, gpu_available,
                 stop_issued, cancelled_running, cancelled_unstarted>>
  /\ UNCHANGED aside_vars
  /\ UNCHANGED job_metrics
  /\ UNCHANGED docker_calls

effective_timeout_job_only(j) == j.timeout_seconds

\* execute_job: timeout = min(job.timeout_seconds, limits.get("timeout", 300))
effective_timeout(j) ==
  Min(j.timeout_seconds,
      get_resource_limits(j.resource_profile, j.analysis_reasoning).timeout)

downgrade_keeps_mode(j) == j

\* execute_job: job.execution_mode = "cpu"; job.gpu_used = False
downgrade(j) == [j EXCEPT !.execution_mode = "cpu", !.gpu_used = FALSE]

\* The outcome of the first containers.run call, and of what follows a
\* first failure (images.pull and the second containers.run call).
LaunchOutcomes == {"ok", "image_not_found", "gpu_error", "error"}
SecondOutcomes == {"ok", "error", "pull_error"}

\* execute_job from the commit of running to the registry insert: a GPU
\* job is downgraded when no GPU is available; containers.run, with one
\* pull on ImageNotFound and one CPU retry on a GPU error of a GPU job.
execute_job_launch(first, second) ==
  /\ pc = "launch"
  /\ first \in LaunchOutcomes
  /\ second \in SecondOutcomes
  /\ (second = "pull_error" => first = "image_not_found")
  /\ LET j0 == IF job.execution_mode = "gpu" /\ ~gpu_available
               THEN downgrade(job) ELSE job
         retried == first \in {"image_not_found", "gpu_error"}
         started == first = "ok" \/ (retried /\ second = "ok")
         j1 == IF first = "gpu_error" THEN downgrade(j0) ELSE j0
     IN  /\ (first = "gpu_error" => j0.execution_mode = "gpu")
         /\ docker_calls' =
              [docker_calls EXCEPT
                 !.run = IF retried /\ second # "pull_error" THEN 2 ELSE 1,
                 !.pull = IF first = "image_not_found" THEN 1 ELSE 0,
                 !.gpu_error = (first = "gpu_error")]
         /\ IF started
            THEN /\ job' = [j1 EXCEPT !.container_id = Some(JobId)]
                 /\ running_containers' = running_containers \cup {JobId}
                 /\ container' = "running"
                 /\ limits' = get_resource_limits(j1.resource_profile, j1.analysis_reasoning)
                 /\ timeout' = effective_timeout(j1)
                 /\ start_time' = now
                 /\ rt_fault' = "none"
                 /\ pc' = "poll"
                 /\ left' = left
            ELSE /\ job' = ExecutionError(j1)
                 /\ left' = LeftAfter(job.status, "failed")
                 /\ rt_fault' = "launch"
                 /\ pc' = "done"
                 /\ UNCHANGED <<running_containers, container, timeout, limits, start_time>>
  /\ UNCHANGED <<request, now, container_exit, result, is_available, gpu_available,
                 stop_issued, cancelled_running, cancelled_unstarted>>
  /\ UNCHANGED aside_vars
  /\ UNCHANGED job_metrics

TimedOutNever(elapsed, tmo) == FALSE

\* _wait_for_container: if elapsed > timeout
TimedOut(elapsed, tmo) == elapsed > tmo

poll_timeout_first(c, elapsed, tmo) ==
  IF TimedOut(elapsed, tmo) THEN "timeout"
  ELSE IF c = "exited" THEN "exited"
  ELSE "sleep"

\* _wait_for_container: what an iteration of the loop does after the
\* reload: the exit check comes before the timeout check.
poll(c, elapsed, tmo) ==
  IF c = "exited" THEN "exited"
  ELSE IF TimedOut(elapsed, tmo) THEN "timeout"
  ELSE "sleep"

final_status_ignores_timeout(res) ==
  IF res.cancelled THEN "cancelled"
  ELSE IF res.exit_code = 0 THEN "success"
  ELSE "failed"

final_status_any_exit_succeeds(res) ==
  IF res.cancelled THEN "cancelled"
  ELSE IF res.timeout THEN "timeout"
  ELSE IF res.exit_code >= 0 THEN "success"
  ELSE "failed"

\* execute_job: "Determine final status"
final_status(res) ==
  IF res.cancelled THEN "cancelled"
  ELSE IF res.timeout THEN "timeout"
  ELSE IF res.exit_code = 0 THEN "success"
  ELSE "failed"

\* execute_job: "Process result" up to the commit.
Finalize(j, res) ==
  [j EXCEPT !.exit_code = Some(res.exit_code),
            !.finished_at = Some(now),
            !.duration_seconds = Duration(j),
            !.status = final_status(res),
            !.error_message = IF final_status(res) = "timeout" THEN Some("timeout")
                              ELSE IF final_status(res) = "failed" THEN Some("exit_code")
                              ELSE @,
            !.gpu_used = (j.execution_mode = "gpu" /\ gpu_available)]

_collect_metrics_raises(j, metrics_ok) ==
  [job |-> IF metrics_ok THEN j ELSE ExecutionError(j),
   added |-> IF metrics_ok THEN 1 ELSE 0,
   stats |-> IF metrics_ok THEN "collected" ELSE "failed"]

\* _collect_metrics: the stats call and the creation of the JobMetrics
\* record are inside one try block whose handler only logs (metrics_ok is
\* false when one of them raises); the record is added to the session.
_collect_metrics(j, metrics_ok) ==
  [job |-> j,
   added |-> IF metrics_ok THEN 1 ELSE 0,
   stats |-> IF metrics_ok THEN "collected" ELSE "failed"]

\* The outcome of the commit that follows "Collect metrics": it returns
\* ("ok"), or it raises and the commit of the generic handler returns
\* ("fail"), or that one raises too and the exception reaches
\* run_job_background ("fail_twice").
CommitOutcomes == {"ok", "fail", "fail_twice"}

\* execute_job from "Process result" through "Save logs" and "Collect
\* metrics" to the commit: when writing the log file raises (save_ok is
\* false) or the commit raises, the generic handler stores failed over the
\* status just chosen; when the handler's commit raises too, the handler of
\* run_job_background stores failed again.
Outcome(j, res, save_ok, metrics_ok, commit) ==
  IF ~save_ok THEN ExecutionError(Finalize(j, res))
  ELSE IF commit = "ok" THEN _collect_metrics(Finalize(j, res), metrics_ok).job
  ELSE ExecutionError(_collect_metrics(Finalize(j, res), metrics_ok).job)

\* The JobMetrics rows after that step: the record added to the session is
\* stored by the commit that follows, and lost when that commit raises.
StoredMetrics(j, res, save_ok, metrics_ok, commit) ==
  IF save_ok /\ commit = "ok"
  THEN _collect_metrics(Finalize(j, res), metrics_ok).added
  ELSE 0

\* The call that raised in the finalization, if any.
OutcomeFault(save_ok, commit) ==
  IF ~save_ok THEN "save"
  ELSE IF commit = "ok" THEN "none"
  ELSE IF commit = "fail" THEN "commit"
  ELSE "commit_twice"

\* _collect_metrics is called when the log file was saved.
metrics_calls(calls, save_ok, metrics_ok) ==
  IF save_ok
  THEN [calls EXCEPT !.stats = _collect_metrics(job, metrics_ok).stats]
  ELSE calls

\* The finally block of execute_job: the registry entry is deleted and the
\* sandbox force-removed; a failing removal is only logged.
Cleanup(c, remove_ok) == IF remove_ok /\ c # "none" THEN "removed" ELSE c

cleanup_calls_skip_remove(calls) == calls

\* The finally block of execute_job: container.remove(force=True) is
\* called whenever a sandbox was started.
cleanup_calls(calls) == [calls EXCEPT !.remove = @ + 1]

\* One iteration of the polling loop, from the wake-up to the next sleep
\* or through finalization and cleanup to the end of the task.  When the
\* loop is left without an error, the whole output of the sandbox
\* (container.logs()) is the result's log, which "Save logs" writes to the
\* job's output.log.
wait_for_container(reload_ok, stop_ok, save_ok, metrics_ok, commit, remove_ok) ==
  /\ pc \in {"poll", "sleep"}
  /\ commit \in CommitOutcomes
  /\ LET elapsed == now - start_time
         raised == container = "removed" \/ ~reload_ok
     IN  IF raised
         THEN \* container.reload() raised: except Exception in execute_job
              /\ job' = ExecutionError(job)
              /\ left' = LeftAfter(job.status, "failed")
              /\ rt_fault' = "reload"
              /\ container' = Cleanup(container, remove_ok)
              /\ running_containers' = running_containers \ {JobId}
              /\ docker_calls' = cleanup_calls(docker_calls)
              /\ pc' = "done"
              /\ UNCHANGED <<result, stop_issued, container_exit, job_metrics>>
         ELSE IF poll(container, elapsed, timeout) = "exited"
         THEN /\ result' = [result EXCEPT !.exit_code = container_exit]
              /\ job' = Outcome(job, result', save_ok, metrics_ok, commit)
              /\ job_metrics' = job_metrics
                                + StoredMetrics(job, result', save_ok, metrics_ok, commit)
              /\ left' = LeftAfter(job.status, job'.status)
              /\ rt_fault' = OutcomeFault(save_ok, commit)
              /\ container' = Cleanup(container, remove_ok)
              /\ running_containers' = running_containers \ {JobId}
              /\ docker_calls' = cleanup_calls(metrics_calls(docker_calls, save_ok, metrics_ok))
              /\ pc' = "done"
              /\ UNCHANGED <<stop_issued, container_exit>>
         ELSE IF poll(container, elapsed, timeout) = "timeout"
         THEN /\ result' = [result EXCEPT !.timeout = TRUE]
              /\ stop_issued' = TRUE
              /\ IF stop_ok
                 THEN /\ job' = Outcome(job, result', save_ok, metrics_ok, commit)
                      /\ job_metrics' = job_metrics
                                        + StoredMetrics(job, result', save_ok, metrics_ok, commit)
                      /\ rt_fault' = OutcomeFault(save_ok, commit)
                      /\ container_exit' = 137
                      /\ container' = Cleanup("exited", remove_ok)
                      /\ docker_calls' =
                           cleanup_calls(metrics_calls(docker_calls, save_ok, metrics_ok))
                 ELSE /\ job' = ExecutionError(job)
                      /\ job_metrics' = job_metrics
                      /\ rt_fault' = "stop"
                      /\ container_exit' = container_exit
                      /\ container' = Cleanup(container, remove_ok)
                      /\ docker_calls' = cleanup_calls(docker_calls)
              /\ left' = LeftAfter(job.status, job'.status)
              /\ running_containers' = running_containers \ {JobId}
              /\ pc' = "done"
         ELSE /\ pc' = "sleep"
              /\ rt_fault' = "none"
              /\ UNCHANGED <<job, left, result, stop_issued, container,
                             container_exit, running_containers, docker_calls,
                             job_metrics>>
  /\ log_file' = IF pc' = "done" /\ rt_fault' \notin {"reload", "stop", "save"}
                 THEN Some(output)
                 ELSE log_file
  /\ UNCHANGED <<request, now, timeout, limits, start_time, is_available, gpu_available,
                 cancelled_running, cancelled_unstarted>>
  /\ UNCHANGED <<lock_vars, analyzer_vars, relay_vars, output, log_buffer, published>>

\* The outcomes of the calls of one iteration.  An outcome is drawn only
\* for a call that can be made: a call that follows one that raised is not
\* made (the removal of the finally block always is).
Supervisions ==
  {s \in [reload : BOOLEAN, stop : BOOLEAN, save : BOOLEAN, metrics : BOOLEAN,
          commit : CommitOutcomes, remove : BOOLEAN] :
     /\ (~s.reload => s.stop)
     /\ (~s.stop => s.save)
     /\ (~s.save => s.metrics /\ s.commit = "ok")}

\* The recording of the outcome is disturbed: collecting the metrics or
\* the commit raises.
RecordFaults(s) == ~s.metrics \/ s.commit # "ok"

\* _simulate_execution: await asyncio.sleep(2)
SimulatedSeconds == 2

\* _simulate_execution after its sleep: the task wakes up when at least
\* two seconds have passed since it went to sleep (late: the wake-up
\* comes later than that); the duration stored is the constant 2.0.
\* The callback that run_job_background passes to execute_job: it passes
\* none, and execute_job hands its on_log on to _wait_for_container and to
\* _simulate_execution.
on_log == None

\* The lines of the text that _simulate_execution writes to output.log: the
\* second, fifth and ninth hold white space only.
SimulatedOutput ==
  <<"text", "blank", "text", "text", "blank", "text", "text", "text", "blank", "text">>

simulate_execution(late) ==
  /\ pc = "simulating"
  /\ now' = Max(now, start_time + SimulatedSeconds + (IF late THEN 1 ELSE 0))
  /\ job' = [job EXCEPT !.status = "success",
                        !.finished_at = Some(now'),
                        !.duration_seconds = Some(SimulatedSeconds),
                        !.exit_code = Some(0)]
  /\ left' = LeftAfter(job.status, "success")
  /\ pc' = "done"
  /\ published' = IF on_log # None THEN published + Len(SimulatedOutput) + 1 ELSE published
  /\ log_file' = Some(SimulatedOutput)
  /\ UNCHANGED <<request, running_containers, container, container_exit,
                 timeout, limits, start_time, result, is_available, gpu_available,
                 rt_fault, stop_issued, cancelled_running, cancelled_unstarted>>
  /\ UNCHANGED <<lock_vars, analyzer_vars, relay_vars, output, log_buffer>>
  /\ UNCHANGED job_metrics
  /\ UNCHANGED docker_calls

(***************************************************************************)
(* executor.py: DockerExecutor.cancel_job.  f tells which runtime calls    *)
(* of this invocation succeed.  The value is the sandbox state, its exit   *)
(* code, the registry and the result ("true", "false" or "raise").         *)
(***************************************************************************)
\* An outcome is drawn only for a call that can be made: stop is called
\* only after a kill that raised, in the branch where the get by id
\* returned; the get by name of the last resort is called only after a
\* get by id that raised.
Faults ==
  {f \in [get_name : BOOLEAN, get_id : BOOLEAN, get_last : BOOLEAN,
          kill : BOOLEAN, stop : BOOLEAN, remove : BOOLEAN] :
     /\ (f.stop => f.get_id /\ ~f.kill)
     /\ (f.get_id => f.get_last)}

Exists(c) == c \in {"running", "exited"}

\* kill, with stop(timeout=1) as the fallback when kill raises (a sandbox
\* that is not running makes kill raise), then remove(force=True).
KillAndRemove(c, f) ==
  LET killed == IF c = "running" /\ (f.kill \/ f.stop) THEN "exited" ELSE c
  IN  IF f.remove THEN "removed" ELSE killed

\* The last resort of the generic handler: get by name, kill, remove.
LastResort(c, f) ==
  IF ~f.get_last THEN [container |-> c, ret |-> "false"]
  ELSE IF ~Exists(c) THEN [container |-> c, ret |-> "true"]
  ELSE IF ~(c = "running" /\ f.kill) THEN [container |-> c, ret |-> "false"]
  ELSE IF f.remove THEN [container |-> "removed", ret |-> "true"]
  ELSE [container |-> "exited", ret |-> "false"]

executor_cancel_job(f) ==
  LET registered == JobId \in running_containers
      popped == running_containers \ {JobId}
      same(r) == [container |-> container, registry |-> running_containers, ret |-> r]
  IN  IF ~is_available THEN same("raise")
      ELSE IF ~registered /\ ~f.get_name THEN same("raise")
      ELSE IF ~registered /\ ~Exists(container) THEN same("false")
      ELSE IF ~f.get_id
           THEN [container |-> LastResort(container, f).container,
                 registry |-> popped,
                 ret |-> LastResort(container, f).ret]
      ELSE IF ~Exists(container)
           THEN [container |-> container, registry |-> popped, ret |-> "true"]
      ELSE [container |-> KillAndRemove(container, f), registry |-> popped, ret |-> "true"]

ExitAfter(c) == IF container = "running" /\ c # "running" THEN 137 ELSE container_exit

(***************************************************************************)
(* Cancel routes.  jobs.py: cancel_job goes on whatever the status is and  *)
(* whatever executor.cancel_job returns or raises; admin.py:               *)
(* cancel_job_admin answers 400 unless the job is cancellable.             *)
(***************************************************************************)
is_cancellable_any_status(j) == TRUE

is_cancellable(j) == j.status \in {"pending", "queued", "running"}

CancelWrite(j) ==
  [j EXCEPT !.status = "cancelled",
            !.finished_at = Some(now),
            !.duration_seconds = Duration(j)]

update_status_only_if_stopped(j, ret) == IF ret = "true" THEN CancelWrite(j) ELSE j

\* Both cancel routes: the result of executor.cancel_job is only logged,
\* an exception it raises is caught, and the status is updated.
update_status(j, ret) == CancelWrite(j)

cancel_job(f) ==
  /\ Created
  /\ pc \in YieldPoints
  /\ f \in Faults
  /\ container' = executor_cancel_job(f).container
  /\ container_exit' = ExitAfter(container')
  /\ running_containers' = executor_cancel_job(f).registry
  /\ job' = update_status(job, executor_cancel_job(f).ret)
  /\ left' = LeftAfter(job.status, job'.status)
  /\ cancelled_running' = (cancelled_running \/ job.status = "running")
  /\ cancelled_unstarted' = (cancelled_unstarted \/ job.status \in {"pending", "queued"})
  /\ UNCHANGED <<request, pc, now, timeout, limits, start_time, result, is_available,
                 gpu_available, rt_fault, stop_issued>>
  /\ UNCHANGED aside_vars
  /\ UNCHANGED job_metrics
  /\ UNCHANGED docker_calls

\* What the admin route answers and leaves behind: 400 and nothing done
\* when the job is not cancellable; otherwise executor.cancel_job is called
\* and the status is updated.
AdminCancel(f) ==
  IF ~is_cancellable(job)
  THEN [response |-> 400, called |-> FALSE, job |-> job,
        container |-> container, registry |-> running_containers]
  ELSE [response |-> 200, called |-> TRUE,
        job |-> [update_status(job, executor_cancel_job(f).ret) EXCEPT
                   !.error_message = Some("cancelled_by_admin")],
        container |-> executor_cancel_job(f).container,
        registry |-> executor_cancel_job(f).registry]

\* The admin route that answers 200; the one that answers 400 changes
\* nothing.
cancel_job_admin(f) ==
  /\ Created
  /\ pc \in YieldPoints
  /\ f \in Faults
  /\ AdminCancel(f).response = 200
  /\ container' = AdminCancel(f).container
  /\ container_exit' = ExitAfter(container')
  /\ running_containers' = AdminCancel(f).registry
  /\ job' = AdminCancel(f).job
  /\ left' = LeftAfter(job.status, job'.status)
  /\ cancelled_running' = (cancelled_running \/ job.status = "running")
  /\ cancelled_unstarted' = (cancelled_unstarted \/ job.status \in {"pending", "queued"})
  /\ UNCHANGED <<request, pc, now, timeout, limits, start_time, result, is_available,
                 gpu_available, rt_fault, stop_issued>>
  /\ UNCHANGED aside_vars
  /\ UNCHANGED job_metrics
  /\ UNCHANGED docker_calls

(***************************************************************************)
(* Environment: the script ends by itself; time passes.                    *)
(***************************************************************************)
ExitCodes == {0, 1}

ContainerExits(code) ==
  /\ container = "running"
  /\ code \in ExitCodes
  /\ container' = "exited"
  /\ container_exit' = code
  /\ UNCHANGED <<job, request, pc, now, running_containers, timeout, limits, start_time,
                 result, is_available, gpu_available, rt_fault, stop_issued,
                 cancelled_running, cancelled_unstarted, left>>
  /\ UNCHANGED aside_vars
  /\ UNCHANGED job_metrics
  /\ UNCHANGED docker_calls

Tick ==
  /\ now < MaxNow
  /\ now' = now + 1
  /\ UNCHANGED <<job, request, pc, running_containers, container, container_exit,
                 timeout, limits, start_time, result, is_available, gpu_available,
                 rt_fault, stop_issued, cancelled_running, cancelled_unstarted, left>>
  /\ UNCHANGED aside_vars
  /\ UNCHANGED job_metrics
  /\ UNCHANGED docker_calls

\* While the supervisor polls, the clock reaches the deadline and passes it.
DeadlinePasses ==
  /\ pc \in {"poll", "sleep"}
  /\ now - start_time <= timeout
  /\ \E t \in {start_time + timeout, start_time + timeout + 1} :
       /\ t > now
       /\ now' = t
  /\ UNCHANGED <<job, request, pc, running_containers, container, container_exit,
                 timeout, limits, start_time, result, is_available, gpu_available,
                 rt_fault, stop_issued, cancelled_running, cancelled_unstarted, left>>
  /\ UNCHANGED aside_vars
  /\ UNCHANGED job_metrics
  /\ UNCHANGED docker_calls

(***************************************************************************)
(* Inputs.                                                                 *)
(***************************************************************************)
RequestTimeouts == {TimeoutGe, TimeoutLe}

Cfg(m, c, t, x) == [memory_mb |-> m, cpu_shares |-> c, timeout |-> t, extra |-> x]

CustomConfigs ==
  {NoConfig,
   Cfg(Some(100000), Some(5000), None, FALSE),
   Cfg(Some(100), Some(100), Some(5), FALSE),
   Cfg(Some(1024), Some(512), Some(5000), FALSE),
   Cfg(None, None, Some(20), TRUE)}

RunRequests ==
  [route : {"run"}, code : Scripts, execution_mode : ExecutionModeEnum,
   resource_profile : ResourceProfileEnum, timeout : RequestTimeouts,
   custom_config : CustomConfigs]

UploadRequests ==
  [route : {"upload"}, code : {[blank |-> FALSE, gpu |-> 0, mem |-> 0, comp |-> 0]},
   execution_mode : {"cpu", "gpu", "auto", "fast"},
   resource_profile : {"medium", "gpu", "auto", "huge"},
   timeout : {0, 5, 300, 86400},
   custom_config : {NoConfig}]

\* The requests followed through a whole execution.
Script(g, m, c) == [blank |-> FALSE, gpu |-> g, mem |-> m, comp |-> c]

Run(code, mode, profile, t, cfg) ==
  [route |-> "run", code |-> code, execution_mode |-> mode,
   resource_profile |-> profile, timeout |-> t, custom_config |-> cfg]

Upload(mode, profile, t) ==
  [route |-> "upload", code |-> Script(0, 0, 0), execution_mode |-> mode,
   resource_profile |-> profile, timeout |-> t, custom_config |-> NoConfig]

LifecycleRunRequests ==
  {Run(Script(1, 0, 0), "cpu", "auto", TimeoutGe, NoConfig),
   Run(Script(0, 0, 0), "auto", "small", 300, Cfg(None, None, Some(3600), FALSE)),
   Run(Script(0, 1, 0), "auto", "auto", TimeoutGe, Cfg(None, None, Some(20), TRUE))}

LifecycleUploadRequests ==
  {Upload("fast", "huge", 0),
   Upload("gpu", "gpu", 300)}

Submission(R, U) ==
  \/ \E req \in R : submit_job(req)
  \/ \E req \in U : upload_and_run(req)

Launch ==
  \/ run_job_background
  \/ \E prep_ok \in BOOLEAN : execute_job_begin(prep_ok)
  \/ \E first \in LaunchOutcomes, second \in SecondOutcomes : execute_job_launch(first, second)

Supervise(S) ==
  \E s \in S :
    wait_for_container(s.reload, s.stop, s.save, s.metrics, s.commit, s.remove)

\* One job's whole execution; the stats call and the commits of the
\* finalization return (SpecStore below lets them raise).
Next ==
  \/ Submission(LifecycleRunRequests, LifecycleUploadRequests)
  \/ Launch
  \/ Supervise({s \in Supervisions : ~RecordFaults(s)})
  \/ \E late \in BOOLEAN : simulate_execution(late)
  \/ \E f \in Faults : cancel_job(f)
  \/ \E f \in Faults : cancel_job_admin(f)
  \/ \E code \in ExitCodes : ContainerExits(code)
  \/ Tick
  \/ DeadlinePasses

Spec == Init /\ [][Next]_vars

\* One request's whole execution, with every fault of the finalization:
\* the stats call, the creation of the metrics record and the commits may
\* raise.
StoreRequests == {Run(Script(0, 1, 0), "auto", "auto", TimeoutGe, NoConfig)}

NextStore ==
  \/ \E req \in StoreRequests : submit_job(req)
  \/ Launch
  \/ Supervise(Supervisions)
  \/ \E late \in BOOLEAN : simulate_execution(late)
  \/ \E f \in Faults : cancel_job(f)
  \/ \E f \in Faults : cancel_job_admin(f)
  \/ \E code \in ExitCodes : ContainerExits(code)
  \/ Tick
  \/ DeadlinePasses

SpecStore == Init /\ [][NextStore]_vars

\* jobs.py: analyze_script_endpoint, the /analyze route: the script of the
\* request is analyzed and the analysis returned, nothing is stored.  One
\* call is followed.
analyze_script_endpoint(req) ==
  /\ req.route = "run"
  /\ pc = "unsubmitted"
  /\ request = NoRequest
  /\ LET ga == IF is_available THEN gpu_available ELSE FALSE
     IN  /\ last_analysis' = analyze(req.code, ga)
         /\ determined' = IF req.code.blank THEN NoAnalysis
                          ELSE _determine_profile(req.code.gpu, req.code.mem, req.code.comp)
  /\ request' = req
  /\ UNCHANGED <<job, pc, now, running_containers, container, container_exit,
                 timeout, limits, start_time, result, is_available, gpu_available,
                 rt_fault, stop_issued, cancelled_running, cancelled_unstarted, left,
                 docker_calls, job_metrics, lock_vars, relay_vars, log_vars>>

\* The /analyze route called with every script; the route reads no other
\* field of the request.
AnalyzeRequests ==
  [route : {"run"}, code : Scripts, execution_mode : ExecutionModeEnum,
   resource_profile : {"auto"}, timeout : {300}, custom_config : {NoConfig}]

NextAnalyzer == \E req \in AnalyzeRequests : analyze_script_endpoint(req)

SpecAnalyzer == Init /\ [][NextAnalyzer]_vars

\* Every request of the input sets, from submission to the launch.
NextLaunch ==
  \/ Submission(RunRequests, UploadRequests)
  \/ Launch

SpecLaunch == Init /\ [][NextLaunch]_vars

\* The supervision task is scheduled fairly, its runtime calls return and
\* the wall clock advances.  Fairness is asked of the poll whose reload and
\* stop calls return: nothing obliges the runtime to fail.
LiveSpec ==
  /\ Spec
  /\ WF_vars(Launch)
  /\ WF_vars(\E metrics_ok, remove_ok \in BOOLEAN :
               wait_for_container(TRUE, TRUE, TRUE, metrics_ok, "ok", remove_ok))
  /\ WF_vars(\E late \in BOOLEAN : simulate_execution(late))
  /\ WF_vars(DeadlinePasses)

(***************************************************************************)
(* Registry.  The accesses of executor.running_containers, each inside a   *)
(* "with self._lock:" block.  Here every accessor is taken as a thread of  *)
(* its own that can be interrupted between any two statements, which       *)
(* allows more interleavings than the single event loop does.  An accessor *)
(* goes through its sections in order; at[t] counts its steps, three per   *)
(* section: entering the block, the access, leaving the block.             *)
(*   execute_job          insert (after the launch), delete (finally)      *)
(*   cancel_job           get, then pop unless it returned False           *)
(*   get_container_logs   get                                              *)
(*   get_running_job_ids  keys                                             *)
(***************************************************************************)
run_vars == <<job, request, pc, now, container, container_exit, timeout, limits,
              start_time, result, is_available, gpu_available, rt_fault, stop_issued,
              cancelled_running, cancelled_unstarted, left, docker_calls,
              job_metrics, analyzer_vars, log_vars>>

job_vars == <<run_vars, relay_vars>>

Sections == [execute_job |-> 2, cancel_job |-> 2,
             get_container_logs |-> 1, get_running_job_ids |-> 1]

End(t) == 3 * Sections[t]

Section(t) == (at[t] \div 3) + 1

InSection(t) == at[t] % 3 # 0

without_lock(t) == _lock' = _lock

\* with self._lock: the block is entered when the lock is free.
with_lock(t) == _lock = "free" /\ _lock' = t

lock_enter(t) ==
  /\ at[t] < End(t)
  /\ at[t] % 3 = 0
  /\ with_lock(t)
  /\ at' = [at EXCEPT ![t] = @ + 1]
  /\ UNCHANGED <<job_vars, running_containers>>

\* The statement inside the block.
registry_access(t) ==
  /\ at[t] % 3 = 1
  /\ running_containers' =
       IF t = "execute_job" /\ Section(t) = 1 THEN running_containers \cup {JobId}
       ELSE IF t = "execute_job" \/ (t = "cancel_job" /\ Section(t) = 2)
       THEN running_containers \ {JobId}
       ELSE running_containers
  /\ at' = [at EXCEPT ![t] = @ + 1]
  /\ UNCHANGED <<job_vars, _lock>>

\* The end of the block releases the lock.  cancel_job returns False after
\* its first block when it read no entry and finds no sandbox by name.
lock_exit(t) ==
  /\ at[t] % 3 = 2
  /\ _lock' = "free"
  /\ \E next \in {at[t] + 1, End(t)} :
       /\ (next # at[t] + 1 =>
             t = "cancel_job" /\ Section(t) = 1 /\ JobId \notin running_containers)
       /\ at' = [at EXCEPT ![t] = next]
  /\ UNCHANGED <<job_vars, running_containers>>

\* The routes call cancel_job and the two readers again and again.
call_again(t) ==
  /\ t # "execute_job"
  /\ at[t] = End(t)
  /\ at' = [at EXCEPT ![t] = 0]
  /\ UNCHANGED <<job_vars, running_containers, _lock>>

NextRegistry ==
  \E t \in Accessors :
    \/ lock_enter(t)
    \/ registry_access(t)
    \/ lock_exit(t)
    \/ call_again(t)

SpecRegistry == Init /\ [][NextRegistry]_vars

(***************************************************************************)
(* Log relay (websocket.py).  ConnectionManager keeps, for each job id     *)
(* with subscribers, the list of their websockets.  Each websocket is      *)
(* served by one coroutine websocket_job_logs; manager.send_log and        *)
(* manager.send_status send one event to every websocket of the list.      *)
(* All of them run on the event loop of the routes and are interleaved at  *)
(* their awaits: accept, send_json, receive_text, sleep.  The script       *)
(* followed here prints nothing: there is no log line to send.             *)
(***************************************************************************)
Range(s) == {s[k] : k \in 1..Len(s)}

\* The websockets registered for the job.
Registered(ac) == IF JobId \in DOMAIN ac THEN Range(ac[JobId]) ELSE {}

\* An event sent to a websocket.  detailed tells whether it has the keys
\* exit_code and duration; n numbers the events published by the manager;
\* line is, for a log event of the handler, the number of the line of the
\* sandbox's output (or of output.log) that is its message.
Event(type, status, detailed, exit_code, duration, n, line) ==
  [type |-> type, status |-> status, detailed |-> detailed,
   exit_code |-> exit_code, duration |-> duration, n |-> n, line |-> line]

Plain(type) == Event(type, "none", FALSE, None, None, 0, 0)

Connected(status) == Event("connected", status, FALSE, None, None, 0, 0)

\* The complete event of a websocket that connected to a finished job.
CompleteLate(status) == Event("complete", status, FALSE, None, None, 0, 0)

\* The complete event of the polling loop.
Complete(j) == Event("complete", j.status, TRUE, j.exit_code, j.duration_seconds, 0, 0)

Published(type, n) == Event(type, "none", FALSE, None, None, n, 0)

\* The log event whose message is line number k.
LogLine(k) == Event("log", "none", FALSE, None, None, 0, k)

\* The log events of the lines numbered in s.
LogLines(s) == [k \in 1..Len(s) |-> LogLine(s[k])]

\* tail=50 of the handler's call of get_container_logs.
TailLines == 50

\* executor.get_container_logs: nothing when the registry has no entry for
\* the job or the sandbox is not found, otherwise the last tail lines of
\* the sandbox's output, given by their numbers.
get_container_logs(tail) ==
  IF JobId \notin running_containers \/ ~Exists(container) THEN None
  ELSE LET m == Min(tail, Len(output))
       IN  Some([k \in 1..m |-> Len(output) - m + k])

live_logs_by_line_count(last_position) ==
  LET logs == get_container_logs(TailLines)
  IN  IF logs = None \/ Get(logs) = <<>>
      THEN [sent |-> <<>>, last_position |-> last_position]
      ELSE LET lines == Get(logs)
               new == SubSeq(lines, last_position + 1, Len(lines))
           IN  [sent |-> LogLines(SelectSeq(new, LAMBDA i : output[i] = "text")),
                last_position |-> Len(lines)]

\* "Get live logs": the text is split at the line ends, which leaves an
\* empty last element (numbered 0 here) after the end of the last line;
\* the elements from last_position on that are not blank are sent, and
\* last_position becomes the number of elements.
live_logs(last_position) ==
  LET logs == get_container_logs(TailLines)
  IN  IF logs = None \/ Get(logs) = <<>>
      THEN [sent |-> <<>>, last_position |-> last_position]
      ELSE LET lines == Append(Get(logs), 0)
               new == SubSeq(lines, last_position + 1, Len(lines))
           IN  [sent |-> LogLines(SelectSeq(new, LAMBDA i : i # 0 /\ output[i] = "text")),
                last_position |-> Len(lines)]

send_existing_logs_with_blank_lines(start) ==
  IF log_file = None THEN <<>>
  ELSE LET lines == Get(log_file)
       IN  LogLines([k \in 1..(Len(lines) - Min(start, Len(lines))) |-> start + k])

\* send_existing_logs: the lines of output.log from the offset start on
\* that are not blank, in the order of the file; nothing when there is no
\* file.
send_existing_logs(start) ==
  IF log_file = None THEN <<>>
  ELSE LET lines == Get(log_file)
           rest == [k \in 1..(Len(lines) - Min(start, Len(lines))) |-> start + k]
       IN  LogLines(SelectSeq(rest, LAMBDA i : lines[i] = "text"))

\* ConnectionManager.connect, after the accept.
connect(ac, w) ==
  [j \in {JobId} |-> IF JobId \in DOMAIN ac THEN Append(ac[JobId], w) ELSE <<w>>]

disconnect_keeps_empty_list(ac, w) ==
  IF JobId \notin DOMAIN ac THEN ac
  ELSE [j \in {JobId} |-> SelectSeq(ac[JobId], LAMBDA x : x # w)]

\* ConnectionManager.disconnect: the websocket is removed from the list,
\* and the key deleted when the list is left empty.
disconnect(ac, w) ==
  IF JobId \notin DOMAIN ac THEN ac
  ELSE LET l == SelectSeq(ac[JobId], LAMBDA x : x # w)
       IN  IF l = <<>> THEN NoConnections ELSE [j \in {JobId} |-> l]

RECURSIVE disconnect_all(_, _)
disconnect_all(ac, failed) ==
  IF failed = <<>> THEN ac
  ELSE disconnect_all(disconnect(ac, Head(failed)), Tail(failed))

\* When the key is deleted while a send is iterating over its list, the
\* send is left with the emptied list: a later connect makes a new one.
Detached(ac) == sending.detached \/ (sending.pc = "sending" /\ JobId \notin DOMAIN ac)

\* The end of websocket_job_logs after the events evs were sent: its
\* finally block calls manager.disconnect.
handler_returns(w, evs) ==
  /\ ws' = [ws EXCEPT ![w].pc = "ended"]
  /\ received' = [received EXCEPT ![w] = @ \o evs]
  /\ active_connections' = disconnect(active_connections, w)
  /\ sending' = [sending EXCEPT !.detached = Detached(active_connections')]

\* websocket_job_logs up to the accept: the token is verified and the job
\* found, its status is read, and the handler waits in websocket.accept.
websocket_job_logs(w) ==
  /\ ws[w].pc = "none"
  /\ Created
  /\ ws' = [ws EXCEPT ![w].pc = "accepting", ![w].initial_status = job.status]
  /\ UNCHANGED <<active_connections, received, sending>>
  /\ UNCHANGED <<run_vars, running_containers, lock_vars>>

\* manager.connect after the accept: the websocket is registered and the
\* confirmation is sent.  When the client is gone, accept raises outside
\* the try block and nothing is registered.
manager_connect(w) ==
  /\ ws[w].pc = "accepting"
  /\ IF ws[w].alive
     THEN /\ active_connections' = connect(active_connections, w)
          /\ received' = [received EXCEPT ![w] = Append(@, Connected(ws[w].initial_status))]
          /\ ws' = [ws EXCEPT ![w].pc = "connected"]
     ELSE /\ ws' = [ws EXCEPT ![w].pc = "ended"]
          /\ UNCHANGED <<active_connections, received>>
  /\ UNCHANGED sending
  /\ UNCHANGED <<run_vars, running_containers, lock_vars>>

\* After the confirmation: a job that was finished when the handler read
\* its status gets its log and a complete event, and the handler returns;
\* otherwise the handler enters its loop and waits for a client message.
\* When the client is gone the confirmation raised.
websocket_after_confirmation(w) ==
  /\ ws[w].pc = "connected"
  /\ IF ~ws[w].alive
     THEN handler_returns(w, <<>>)
     ELSE IF ws[w].initial_status \in Terminal
     THEN handler_returns(w, send_existing_logs(0) \o <<CompleteLate(ws[w].initial_status)>>)
     ELSE /\ ws' = [ws EXCEPT ![w].pc = "loop"]
          /\ UNCHANGED <<active_connections, received, sending>>
  /\ UNCHANGED <<run_vars, running_containers, lock_vars>>

\* The messages a client sends: none within the second ("timeout"), a
\* cancel action, a text that is no JSON, a JSON text that is no object.
ClientMessages == {"timeout", "cancel", "invalid_json", "not_object"}

\* "Check job status": a finished job gets the rest of its log file and a
\* complete event, and the loop is left; otherwise the new lines of the
\* sandbox's output are sent and the handler sleeps, then waits for the
\* next message.  A query that raises is answered by an error event.
check_job_status(w, query_ok) ==
  IF ~query_ok THEN handler_returns(w, <<Plain("error")>>)
  ELSE IF job.status \in Terminal
  THEN handler_returns(w, send_existing_logs(ws[w].last_position) \o <<Complete(job)>>)
  ELSE /\ ws' = [ws EXCEPT ![w].pc = "loop",
                           ![w].last_position = live_logs(@).last_position]
       /\ received' = [received EXCEPT ![w] = @ \o live_logs(ws[w].last_position).sent]
       /\ UNCHANGED <<active_connections, sending>>

\* The cancel messages of a client that were answered.
Answered(w) == Len(SelectSeq(received[w], LAMBDA e : e.type = "info"))

\* One iteration of the loop, from the end of receive_text to the next
\* receive_text, or to the send of the info event after a cancel message.
websocket_loop(w, msg, query_ok) ==
  /\ ws[w].pc = "loop"
  /\ msg \in ClientMessages
  /\ msg = "cancel" => Answered(w) < MaxInfo
  /\ IF ~ws[w].alive
     THEN \* receive_text raises WebSocketDisconnect
          handler_returns(w, <<>>)
     ELSE IF msg = "not_object"
     THEN \* msg.get raises AttributeError: except Exception
          handler_returns(w, <<Plain("error")>>)
     ELSE IF msg = "cancel"
     THEN /\ ws' = [ws EXCEPT ![w].pc = "info"]
          /\ received' = [received EXCEPT ![w] = Append(@, Plain("info"))]
          /\ UNCHANGED <<active_connections, sending>>
     ELSE check_job_status(w, query_ok)
  /\ UNCHANGED <<run_vars, running_containers, lock_vars>>

\* The iteration goes on after the info event was sent.
websocket_after_info(w, query_ok) ==
  /\ ws[w].pc = "info"
  /\ IF ~ws[w].alive
     THEN handler_returns(w, <<>>)
     ELSE check_job_status(w, query_ok)
  /\ UNCHANGED <<run_vars, running_containers, lock_vars>>

\* The client goes away.
client_disconnects(w) ==
  /\ ws[w].pc \notin {"none", "ended"}
  /\ ws[w].alive
  /\ ws' = [ws EXCEPT ![w].alive = FALSE]
  /\ UNCHANGED <<active_connections, received, sending>>
  /\ UNCHANGED <<run_vars, running_containers, lock_vars>>

\* manager.send_log and manager.send_status up to the first send_json: the
\* loop "for ws in self.active_connections[job_id]" takes the first
\* websocket of the list.
\* It returns at once when the job has no list.
send_begin(type) ==
  IF JobId \notin DOMAIN active_connections
  THEN [NoSending EXCEPT !.n = sending.n + 1, !.type = type]
  ELSE [NoSending EXCEPT
          !.pc = "sending", !.n = sending.n + 1, !.type = type,
          !.i = 1, !.target = active_connections[JobId][1],
          !.subscribers = active_connections[JobId]]

send_log ==
  /\ sending.pc = "idle"
  /\ sending.n < MaxPublish
  /\ sending' = send_begin("log")
  /\ UNCHANGED <<active_connections, ws, received>>
  /\ UNCHANGED <<run_vars, running_containers, lock_vars>>

send_status ==
  /\ sending.pc = "idle"
  /\ sending.n < MaxPublish
  /\ sending' = send_begin("status")
  /\ UNCHANGED <<active_connections, ws, received>>
  /\ UNCHANGED <<run_vars, running_containers, lock_vars>>

\* The loop over the list itself: the iterator takes the element at the
\* next index of the list as it is now.
next_of_list(s, ac) ==
  LET l == IF Detached(ac) THEN <<>> ELSE ac[JobId]
  IN  IF s.i + 1 <= Len(l) THEN l[s.i + 1] ELSE 0

\* send_json returns or raises (the client is gone): a websocket whose
\* send raised is noted; the loop goes on with the next websocket, or
\* ends, and then the noted websockets are disconnected.
send_json_returns ==
  /\ sending.pc = "sending"
  /\ LET t == sending.target
         ok == ws[t].alive
         failed == IF ok THEN sending.disconnected ELSE Append(sending.disconnected, t)
         next == next_of_list(sending, active_connections)
     IN  /\ received' = [received EXCEPT
                           ![t] = IF ok THEN Append(@, Published(sending.type, sending.n))
                                  ELSE @]
         /\ IF next # 0
            THEN /\ sending' = [sending EXCEPT !.i = @ + 1, !.target = next,
                                               !.disconnected = failed]
                 /\ UNCHANGED active_connections
            ELSE /\ sending' = [sending EXCEPT !.pc = "idle", !.disconnected = failed,
                                               !.detached = FALSE]
                 /\ active_connections' = disconnect_all(active_connections, failed)
  /\ UNCHANGED ws
  /\ UNCHANGED <<run_vars, running_containers, lock_vars>>

\* One job.
RelayRequests == {Run(Script(0, 0, 0), "auto", "auto", TimeoutGe, NoConfig)}

NextRelay ==
  \/ \E req \in RelayRequests : submit_job(req)
  \/ Launch
  \/ Supervise({s \in Supervisions : s.reload /\ s.stop /\ s.save /\ ~RecordFaults(s)})
  \/ \E late \in BOOLEAN : simulate_execution(late)
  \/ \E code \in ExitCodes : ContainerExits(code)
  \/ \E w \in Sockets : websocket_job_logs(w)
  \/ \E w \in Sockets : manager_connect(w)
  \/ \E w \in Sockets : websocket_after_confirmation(w)
  \/ \E w \in Sockets, msg \in ClientMessages, query_ok \in BOOLEAN :
       websocket_loop(w, msg, query_ok)
  \/ \E w \in Sockets, query_ok \in BOOLEAN : websocket_after_info(w, query_ok)
  \/ \E w \in Sockets : client_disconnects(w)

\* The job and the handlers of its websockets.
SpecRelay == Init /\ [][NextRelay]_vars

\* The lines a script prints: with text, or blank.
Lines == {"text", "blank"}

\* The script in the sandbox prints a line.
ContainerPrints(line) ==
  /\ container = "running"
  /\ line \in Lines
  /\ Len(output) < MaxLines
  /\ output' = Append(output, line)
  /\ UNCHANGED <<log_buffer, published, log_file>>
  /\ UNCHANGED <<job, request, pc, now, running_containers, container, container_exit,
                 timeout, limits, start_time, result, is_available, gpu_available,
                 rt_fault, stop_issued, cancelled_running, cancelled_unstarted, left,
                 docker_calls, job_metrics>>
  /\ UNCHANGED <<lock_vars, analyzer_vars, relay_vars>>

\* The thread stream_logs of _wait_for_container takes the next line of
\* the sandbox's output, appends it to log_buffer and calls on_log when
\* there is one.
stream_logs ==
  /\ pc \in {"poll", "sleep"}
  /\ Exists(container)
  /\ log_buffer < Len(output)
  /\ log_buffer' = log_buffer + 1
  /\ published' = IF on_log # None THEN published + 1 ELSE published
  /\ UNCHANGED <<output, log_file>>
  /\ UNCHANGED <<job, request, pc, now, running_containers, container, container_exit,
                 timeout, limits, start_time, result, is_available, gpu_available,
                 rt_fault, stop_issued, cancelled_running, cancelled_unstarted, left,
                 docker_calls, job_metrics>>
  /\ UNCHANGED <<lock_vars, analyzer_vars, relay_vars>>

FaultFree == {s \in Supervisions : s.reload /\ s.stop /\ s.save /\ ~RecordFaults(s)}

NextLogs ==
  \/ \E req \in RelayRequests : submit_job(req)
  \/ Launch
  \/ Supervise(FaultFree)
  \/ \E late \in BOOLEAN : simulate_execution(late)
  \/ \E code \in ExitCodes : ContainerExits(code)
  \/ \E line \in Lines : ContainerPrints(line)
  \/ \E w \in Sockets : websocket_job_logs(w)
  \/ \E w \in Sockets : manager_connect(w)
  \/ \E w \in Sockets : websocket_after_confirmation(w)
  \/ \E w \in Sockets, query_ok \in BOOLEAN : websocket_loop(w, "timeout", query_ok)
  \/ \E w \in Sockets : client_disconnects(w)

\* A job whose script prints lines, and the handlers of its websockets,
\* whose clients send no message.
SpecLogs == Init /\ [][NextLogs]_vars

NextDrain ==
  \/ \E req \in RelayRequests : submit_job(req)
  \/ Launch
  \/ Supervise({s \in Supervisions : ~RecordFaults(s)})
  \/ \E late \in BOOLEAN : simulate_execution(late)
  \/ \E code \in ExitCodes : ContainerExits(code)
  \/ \E line \in Lines : ContainerPrints(line)
  \/ stream_logs

\* A job whose script prints lines and the thread that captures them.
SpecDrain == Init /\ [][NextDrain]_vars

NextFanOut ==
  \/ \E req \in RelayRequests : submit_job(req)
  \/ \E f \in Faults : cancel_job(f)
  \/ \E w \in Sockets : websocket_job_logs(w)
  \/ \E w \in Sockets : manager_connect(w)
  \/ \E w \in Sockets : websocket_after_confirmation(w)
  \/ \E w \in Sockets, msg \in ClientMessages, query_ok \in BOOLEAN :
       websocket_loop(w, msg, query_ok)
  \/ \E w \in Sockets, query_ok \in BOOLEAN : websocket_after_info(w, query_ok)
  \/ \E w \in Sockets : client_disconnects(w)
  \/ send_log
  \/ send_status
  \/ send_json_returns

\* The websockets of a job that waits to be run or is cancelled before it
\* runs, and the manager's sends to them.
SpecFanOut == Init /\ [][NextFanOut]_vars

(***************************************************************************)
(* Properties.                                                             *)
(***************************************************************************)
Rank(s) ==
  CASE s = "pending" -> 0
    [] s = "queued" -> 1
    [] s = "running" -> 2
    [] OTHER -> 3

CancelRequested == cancelled_running \/ cancelled_unstarted

\* C1: once the job's status is success, failed, cancelled or timeout, no
\* later step (cancel routes, supervisor finalization, error handlers)
\* changes it.
C1_TerminalStatusNeverChanges ==
  [][job.status \in Terminal => job'.status = job.status]_vars

\* C2: when a cancel request was handled while the job was running, the
\* status stored once the supervision has ended is cancelled.
C2_CancelRunningEndsCancelled ==
  (cancelled_running /\ pc = "done") => job.status = "cancelled"

\* C3: a job cancelled while pending or queued never afterwards has the
\* status running.
C3_CancelledUnstartedNeverRuns ==
  cancelled_unstarted => job.status # "running"

\* C4: the status only moves forward along pending, queued, running,
\* terminal: no step moves it to an earlier rank or back to a status it
\* has left.
C4_StatusOnlyMovesForward ==
  [][/\ Rank(job'.status) >= Rank(job.status)
     /\ job'.status \notin left']_vars

\* C5: every submitted job's supervision eventually ends with the job in
\* one of success, failed, cancelled, timeout.
C5_EventuallyTerminal ==
  Created ~> (pc = "done" /\ job.status \in Terminal)

C5_Witness ==
  /\ pc = "done"
  /\ result.timeout
  /\ job.status = "timeout"

\* The poll that observes the sandbox running (the reload returns) when no
\* cancel has been requested and the elapsed time exceeds the enforced
\* timeout.
TimeoutPoll ==
  /\ pc \in {"poll", "sleep"}
  /\ pc' = "done"
  /\ rt_fault' # "reload"
  /\ container = "running"
  /\ ~CancelRequested
  /\ now - start_time > timeout

ResolvedProfile == IF job.resource_profile \in ProfileNames THEN job.resource_profile ELSE "medium"

ProfileTimeout == RESOURCE_PROFILES[ResolvedProfile].timeout

CustomTimeoutGiven == request.custom_config.timeout # None

CustomTimeout == Max(10, Min(Get(request.custom_config.timeout), 3600))

\* C7 as stated: the enforced timeout is the minimum of the requested
\* timeout, the resolved profile's timeout and the custom override.
C7_Original ==
  pc = "poll" =>
    timeout = IF CustomTimeoutGiven
              THEN Min(Min(request.timeout, ProfileTimeout), CustomTimeout)
              ELSE Min(request.timeout, ProfileTimeout)

\* C7 amended: a custom timeout override replaces the requested timeout,
\* and the profile's timeout too when the stored configuration is a flat
\* object: the enforced timeout is then the override clamped to [10, 3600];
\* when the configuration also carries a nested object only the requested
\* timeout is replaced; without an override the enforced timeout is the
\* minimum of the requested timeout and the resolved profile's timeout.
C7_EnforcedTimeout ==
  pc = "poll" =>
    timeout = IF ~CustomTimeoutGiven THEN Min(request.timeout, ProfileTimeout)
              ELSE IF request.custom_config.extra THEN Min(CustomTimeout, ProfileTimeout)
              ELSE CustomTimeout

C7_Witness ==
  /\ pc = "poll"
  /\ CustomTimeoutGiven
  /\ timeout > ProfileTimeout
  /\ timeout > request.timeout

InRange(v, lo, hi) == lo <= v /\ v <= hi

Clamped(o, lo, hi) ==
  IF Get(o) < lo THEN lo ELSE IF Get(o) > hi THEN hi ELSE Get(o)

\* C8: the limits resolved for a launched job have memory_mb in
\* [256, 8192], cpu_shares in [256, 4096] and timeout in [10, 3600]; a
\* field overridden by a flat integer configuration holds the override
\* brought into its range (100000 MB gives 8192), a field that is not
\* overridden holds the profile's value.
C8_LimitsClamped ==
  pc = "poll" =>
    LET cfg == request.custom_config
        prof == RESOURCE_PROFILES[ResolvedProfile]
    IN  /\ InRange(limits.memory_mb, 256, 8192)
        /\ InRange(limits.cpu_shares, 256, 4096)
        /\ InRange(limits.timeout, 10, 3600)
        /\ limits.memory_mb = IF cfg.memory_mb # None /\ ~cfg.extra
                              THEN Clamped(cfg.memory_mb, 256, 8192) ELSE prof.memory_mb
        /\ limits.cpu_shares = IF cfg.cpu_shares # None /\ ~cfg.extra
                               THEN Clamped(cfg.cpu_shares, 256, 4096) ELSE prof.cpu_shares
        /\ limits.timeout = IF cfg.timeout # None /\ ~cfg.extra
                            THEN Clamped(cfg.timeout, 10, 3600) ELSE prof.timeout
        /\ (cfg.memory_mb = Some(100000) /\ ~cfg.extra => limits.memory_mb = 8192)

C8_Witness ==
  /\ pc = "poll"
  /\ request.custom_config.memory_mb = Some(100000)
  /\ limits.memory_mb = 8192
  /\ limits.timeout = ProfileTimeout

\* C9: every created job carries a timeout within [10, 3600], a mode in
\* {cpu, gpu} and a profile of the profile table.
C9_StoredFieldsValidated ==
  Created =>
    /\ InRange(job.timeout_seconds, TimeoutGe, TimeoutLe)
    /\ job.execution_mode \in {"cpu", "gpu"}
    /\ job.resource_profile \in ProfileNames

\* C10: a job created by the JSON route carries the mode and the profile
\* the request names, when it names one other than auto.
C10_UserChoiceWins ==
  (pc = "scheduled" /\ request.route = "run") =>
    /\ (request.execution_mode # "auto" => job.execution_mode = request.execution_mode)
    /\ (request.resource_profile # "auto" => job.resource_profile = request.resource_profile)

\* The step of execute_job that launches the sandbox, and the two cases of
\* the GPU fallback: the job's mode is gpu while no GPU is available, or a
\* containers.run call of a GPU job raised a GPU error.
LaunchStep == pc = "launch" /\ pc' # "launch"

GpuUnavailable == job.execution_mode = "gpu" /\ ~gpu_available

GpuLaunchFailed == docker_calls'.gpu_error

C12_LaunchFailsOnceOrTwice ==
  [][/\ LaunchStep =>
          /\ docker_calls'.run \in 1..2
          /\ docker_calls'.pull \in 0..1
          /\ (docker_calls'.run = 2 =>
                (docker_calls'.pull = 1) # docker_calls'.gpu_error)
          /\ (pc' = "done" => /\ job'.status = "failed"
                              /\ job'.error_message # None
                              /\ job'.finished_at # None)
     /\ ~LaunchStep =>
          /\ docker_calls'.run = docker_calls.run
          /\ docker_calls'.pull = docker_calls.pull]_vars

C12_Witness ==
  /\ pc = "done"
  /\ rt_fault = "launch"
  /\ docker_calls.run = 2
  /\ docker_calls.pull = 1
  /\ job.status = "failed"
  /\ job.error_message # None

\* The step in which execute_job returns after a sandbox was started.
SupervisionEnds == pc \in {"poll", "sleep"} /\ pc' = "done"

\* C13: when execute_job returns for a job whose sandbox was started, it
\* has issued a forced removal of the sandbox and the registry holds no
\* entry for the job, whatever the status stored and also when saving the
\* outcome raised; the registry stays without an entry afterwards.
C13_RemovalIssuedRegistryCleared ==
  [][/\ SupervisionEnds =>
          /\ job.container_id # None
          /\ docker_calls'.remove = docker_calls.remove + 1
          /\ JobId \notin running_containers'
          /\ job'.status \in Terminal
     /\ pc = "done" =>
          /\ JobId \notin running_containers'
          /\ docker_calls'.remove = docker_calls.remove
          /\ (job.container_id # None => docker_calls.remove = 1)]_vars

C13_Witness ==
  /\ pc = "done"
  /\ rt_fault = "save"
  /\ job.container_id # None
  /\ job.status = "failed"
  /\ docker_calls.remove = 1
  /\ JobId \notin running_containers

\* C14: whenever the job's status is not running, its container_id is
\* unset and the registry has no entry for it.
C14_HandleOnlyWhileRunning ==
  job.status # "running" =>
    /\ job.container_id = None
    /\ JobId \notin running_containers

\* C15: in every state where the job has both timestamps, started_at is
\* at or before finished_at and duration_seconds is their difference.
C15_DurationIsFinishedMinusStarted ==
  (job.finished_at # None /\ job.started_at # None) =>
    /\ Get(job.started_at) <= Get(job.finished_at)
    /\ job.duration_seconds = Some(Get(job.finished_at) - Get(job.started_at))

Ordered(a, b) == (a # None /\ b # None) => Get(a) <= Get(b)

\* C16: each of queued_at, started_at and finished_at, once written, is
\* never written again with another value, and the values that are set
\* satisfy queued_at <= started_at <= finished_at.
C16_TimestampsWrittenOnce ==
  [][/\ (job.queued_at # None => job'.queued_at = job.queued_at)
     /\ (job.started_at # None => job'.started_at = job.started_at)
     /\ (job.finished_at # None => job'.finished_at = job.finished_at)
     /\ Ordered(job'.queued_at, job'.started_at)
     /\ Ordered(job'.started_at, job'.finished_at)]_vars

\* C17 as stated: whenever the status is success, failed, cancelled or
\* timeout, started_at is set.
C17_Original ==
  job.status \in Terminal => job.started_at # None

\* C17 amended: a job with status success or timeout has started_at set;
\* a job with a terminal status and no started_at is either cancelled and
\* was cancelled while pending or queued, or failed (and possibly
\* cancelled afterwards) because preparing its directory raised.
C17_StartedBeforeTerminal ==
  /\ job.status \in {"success", "timeout"} => job.started_at # None
  /\ (job.status \in Terminal /\ job.started_at = None) =>
       \/ job.status = "cancelled" /\ cancelled_unstarted
       \/ job.status \in {"failed", "cancelled"} /\ rt_fault = "prepare"

C17_Witness ==
  /\ pc = "done"
  /\ job.status = "success"
  /\ job.exit_code = Some(0)
  /\ job.started_at # None
  /\ job.finished_at # None

\* A step of the background task, and the exit the polling loop observed
\* in the step that ends the supervision (-1: no exit was observed).
TaskStep == pc' # pc

NoFlag == ~result'.timeout /\ ~result'.cancelled

ExitObserved(codes) == SupervisionEnds /\ result'.exit_code \in codes /\ NoFlag

CancelRouteStep ==
  /\ pc' = pc
  /\ now' = now
  /\ ~(container = "running" /\ container' = "exited" /\ container_exit' \in ExitCodes)

\* C20: every cancel request that is handled stores the status cancelled
\* with a finished_at, whatever executor.cancel_job did, returned or
\* raised.
C20_CancelAlwaysWritesCancelled ==
  [][CancelRouteStep =>
       /\ job'.status = "cancelled"
       /\ job'.finished_at = Some(now)]_vars

C20_Witness ==
  /\ pc = "sleep"
  /\ cancelled_running
  /\ container = "running"
  /\ JobId \notin running_containers
  /\ job.status = "cancelled"

\* The lookups of executor.cancel_job answer (none raises an error other
\* than "not found") and the sandbox does not exist any more.
SandboxNotFound(f) ==
  /\ is_available
  /\ ~Exists(container)
  /\ f.get_name /\ f.get_id /\ f.get_last

\* C21: executor.cancel_job returns True whenever the job's sandbox cannot be
\* found, be the lookup by the identifier of the registry or by the name
\* derived from the job.
C21_CancelOfVanishedSandboxSucceeds ==
  Created => \A f \in Faults : SandboxNotFound(f) => executor_cancel_job(f).ret = "true"

\* The step that ends the supervision called _collect_metrics and the call
\* failed: the stats call or the creation of the record raised.
MetricsFailed == SupervisionEnds /\ docker_calls'.stats = "failed"

\* C22: a failure while collecting the metrics does not change the job's
\* outcome.  The record stored is the one decided from the result of the
\* polling loop (or failed, when the commit raised), as it would be had the
\* metrics been collected; a job whose sandbox was seen exited with code 0
\* is stored with status success when nothing else raised, and no metrics
\* record is stored.  A metrics record is stored only when the collection
\* and the commit succeeded.
C22_MetricsFailureIsNotFatal ==
  [][/\ MetricsFailed =>
          /\ job' = IF rt_fault' = "none" THEN Finalize(job, result')
                    ELSE ExecutionError(Finalize(job, result'))
          /\ (ExitObserved({0}) /\ rt_fault' = "none" =>
                /\ job'.status = "success"
                /\ job'.error_message = job.error_message)
          /\ job_metrics' = 0
     /\ job_metrics' # job_metrics =>
          /\ SupervisionEnds
          /\ docker_calls'.stats = "collected"
          /\ rt_fault' = "none"
          /\ job_metrics' = 1]_vars

C22_Witness ==
  /\ pc = "done"
  /\ docker_calls.stats = "failed"
  /\ rt_fault = "none"
  /\ result.exit_code = 0
  /\ ~result.timeout
  /\ job.status = "success"
  /\ job.finished_at # None
  /\ job_metrics = 0

\* The step that ends the supervision decided a status from the result of
\* the polling loop and the commit that stores it raised, once or twice.
TerminalWriteFailed == SupervisionEnds /\ rt_fault' \in {"commit", "commit_twice"}

\* C23: when the write of the terminal status fails, and also when the
\* write that follows it fails, the job keeps the terminal status that was
\* decided: it is not replaced by failed or by another status.
C23_FailedWriteKeepsDecision ==
  [][TerminalWriteFailed => job'.status = final_status(result')]_vars

\* An iteration of the polling loop in which container.reload raised while
\* the sandbox still exists (a transient failure of the runtime), no reload
\* of this supervision having raised before.
FirstFailedPoll ==
  /\ pc \in {"poll", "sleep"}
  /\ rt_fault = "none"
  /\ Exists(container)
  /\ rt_fault' = "reload"

\* C24: a single failed poll does not fail the job: the supervision goes
\* on (the reload is tried again) and the status is not changed.
C24_FailedPollIsRetried ==
  [][FirstFailedPoll => (pc' # "done" /\ job'.status = job.status)]_vars

\* The scores that _determine_profile computes from the numbers of
\* indicators of the analyzed script.
GpuScore == 3 * request.code.gpu

MemoryScore == 2 * request.code.mem

ComputeScore == 2 * request.code.comp

TotalScore == GpuScore + MemoryScore + ComputeScore

\* The /analyze route has analyzed a script that is not empty.
Analyzed == last_analysis # NoAnalysis /\ ~request.code.blank

\* C25: for a non-empty script the profile chosen by _determine_profile is
\* the first match of: gpu_score >= 3 gives gpu (with mode gpu), total >= 8
\* gives large, total >= 4 gives medium, memory_score >= 2 gives medium,
\* otherwise small; the mode is cpu in every case but the first.
C25_DecisionTable ==
  Analyzed =>
    /\ GpuScore >= 3 =>
         determined.recommended_profile = "gpu" /\ determined.execution_mode = "gpu"
    /\ GpuScore < 3 => determined.execution_mode = "cpu"
    /\ (GpuScore < 3 /\ TotalScore >= 8) => determined.recommended_profile = "large"
    /\ (GpuScore < 3 /\ TotalScore < 8 /\ TotalScore >= 4) =>
         determined.recommended_profile = "medium"
    /\ (GpuScore < 3 /\ TotalScore < 4 /\ MemoryScore >= 2) =>
         determined.recommended_profile = "medium"
    /\ (GpuScore < 3 /\ TotalScore < 4 /\ MemoryScore < 2) =>
         determined.recommended_profile = "small"

C25_Witness ==
  /\ Analyzed
  /\ GpuScore = 0
  /\ TotalScore = 8
  /\ determined.recommended_profile = "large"
  /\ determined.execution_mode = "cpu"

\* The GPU availability that the /analyze route passes to the analyzer.
GpuCurrentlyAvailable == is_available /\ gpu_available

\* C26: when the table gives mode gpu and no GPU is available, analyze
\* returns mode cpu and profile large and appends a fallback note to the
\* reasoning; otherwise it returns the table's result unchanged.
C26_GpuFallbackOfAnalysis ==
  Analyzed =>
    IF determined.execution_mode = "gpu" /\ ~GpuCurrentlyAvailable
    THEN /\ last_analysis.execution_mode = "cpu"
         /\ last_analysis.recommended_profile = "large"
         /\ last_analysis.reasoning = determined.reasoning \o <<"gpu_fallback">>
         /\ last_analysis.confidence = determined.confidence
    ELSE last_analysis = determined

C26_Witness ==
  /\ Analyzed
  /\ ~GpuCurrentlyAvailable
  /\ determined.recommended_profile = "gpu"
  /\ last_analysis.recommended_profile = "large"
  /\ last_analysis.execution_mode = "cpu"
  /\ Len(last_analysis.reasoning) = 3

\* The total score of a script, as _determine_profile computes it.
TotalScoreOf(s) == 3 * s.gpu + 2 * s.mem + 2 * s.comp

\* C27: the confidence of a non-empty script is never above 0.9 and never
\* below the confidence of a non-empty script with a lower total score.
C27_ConfidenceMonotonic ==
  Analyzed =>
    /\ last_analysis.confidence <= 90
    /\ \A s \in Scripts :
         (~s.blank /\ TotalScoreOf(s) < TotalScore) =>
           analyze(s, GpuCurrentlyAvailable).confidence <= last_analysis.confidence

\* C28: get_resource_limits called with a profile name that is not in the
\* profile table returns the limits of the medium profile: a launched job
\* whose stored profile is no key of the table runs under medium's limits.
C28_UnknownProfileIsMedium ==
  (pc = "poll" /\ job.resource_profile \notin ProfileNames) =>
    /\ limits = RESOURCE_PROFILES["medium"]
    /\ limits = get_resource_limits("medium", job.analysis_reasoning)
    /\ timeout = Min(job.timeout_seconds, RESOURCE_PROFILES["medium"].timeout)

C28_Witness ==
  /\ pc = "poll"
  /\ job.resource_profile = "huge"
  /\ limits.memory_mb = 2048
  /\ limits.cpu_shares = 1024
  /\ limits.timeout = 300

\* The step that ends a call of send_log or send_status.
SendEnds == sending.pc = "sending" /\ sending'.pc = "idle"

\* The websockets whose send_json raised during the call that ends.
FailedSends == Range(sending'.disconnected)

\* C29: when the send of an event to one subscriber of a job fails, exactly
\* that subscriber is removed from the job's list, and every other
\* subscriber that was registered when the send began and still is when it
\* ends has been sent the same event.
C29_FailedSendRemovesOnlyThatSubscriber ==
  [][(SendEnds /\ FailedSends # {}) =>
       /\ Registered(active_connections') = Registered(active_connections) \ FailedSends
       /\ \A w \in Range(sending.subscribers) \ FailedSends :
            w \in Registered(active_connections') =>
              Published(sending.type, sending.n) \in Range(received'[w])]_vars

\* The step in which the handler of websocket w leaves its loop and
\* returns, the client still being there.
LoopEnds(w) == ws[w].pc \in {"loop", "info"} /\ ws[w].alive /\ ws'[w].pc = "ended"

Completes(w) == SelectSeq(received'[w], LAMBDA e : e.type = "complete")

\* C30: a subscriber that is registered and in its loop when the job is in
\* a terminal state has, when its handler returns, been sent exactly one
\* complete event, which carries the job's status, exit code and duration
\* and is the last event sent to it.
C30_CompleteIsLastEvent ==
  [][\A w \in Sockets :
       (LoopEnds(w) /\ job.status \in Terminal) =>
         /\ Len(Completes(w)) = 1
         /\ received'[w][Len(received'[w])] = Complete(job)]_vars

\* C39: for every script and both GPU availabilities, analyze returns mode
\* gpu exactly when it returns profile gpu, and returns neither when no GPU
\* is available.
C39_ModeGpuIffProfileGpu ==
  last_analysis # NoAnalysis =>
    /\ last_analysis.execution_mode = "gpu" <=> last_analysis.recommended_profile = "gpu"
    /\ ~GpuCurrentlyAvailable =>
         /\ last_analysis.execution_mode # "gpu"
         /\ last_analysis.recommended_profile # "gpu"

C39_Witness ==
  /\ Analyzed
  /\ GpuScore >= 3
  /\ ~GpuCurrentlyAvailable
  /\ determined.execution_mode = "gpu"
  /\ last_analysis.execution_mode = "cpu"
  /\ last_analysis.recommended_profile = "large"

\* C37: an admin cancel request on a job whose status is success, failed,
\* cancelled or timeout is answered by an error, leaves the job's record
\* (status, finished_at, duration, error message), the sandbox and the
\* registry as they are, and does not call executor.cancel_job.
C37_AdminCancelOfFinishedJobRejected ==
  (Created /\ pc \in YieldPoints /\ job.status \in Terminal) =>
    \A f \in Faults :
      /\ AdminCancel(f).response = 400
      /\ ~AdminCancel(f).called
      /\ AdminCancel(f).job = job
      /\ AdminCancel(f).container = container
      /\ AdminCancel(f).registry = running_containers

\* A job that timed out while its sandbox could not be removed: there is
\* still a sandbox that a cancel could kill.
C37_Witness ==
  /\ pc = "done"
  /\ job.status = "timeout"
  /\ Exists(container)
  /\ is_available

\* The poll that ends the supervision finds the sandbox exited (the reload
\* did not raise).
ExitPoll == SupervisionEnds /\ container = "exited" /\ rt_fault' # "reload"

\* C36: the exit check precedes the timeout check.  A poll that finds the
\* sandbox exited puts its exit code in the result and leaves the timeout
\* flag false and issues no stop, also when the time elapsed exceeds the
\* timeout: the job ends success or failed, not timeout.
C36_ExitCheckedBeforeTimeout ==
  [][ExitPoll =>
       /\ result'.exit_code = container_exit
       /\ result'.timeout = FALSE
       /\ stop_issued' = stop_issued
       /\ job'.status \in {"success", "failed"}]_vars

\* The sandbox was found exited with code 0 at a poll after the deadline.
C36_Witness ==
  /\ pc = "done"
  /\ rt_fault = "none"
  /\ job.container_id # None
  /\ docker_calls.run = 1
  /\ docker_calls.remove = 1
  /\ job.finished_at # None
  /\ Get(job.finished_at) - start_time > timeout
  /\ ~result.timeout
  /\ ~stop_issued
  /\ job.exit_code = Some(0)
  /\ job.status = "success"

\* C35: after executor.cancel_job has returned, True or False, the registry
\* holds no entry for the job; and when it has returned False the call has
\* neither killed nor removed the job's sandbox.
C35_CancelReturnLeavesNoEntryFalseNoKill ==
  (Created /\ pc \in YieldPoints) =>
    \A f \in Faults :
      executor_cancel_job(f).ret \in {"true", "false"} =>
        /\ JobId \notin executor_cancel_job(f).registry
        /\ executor_cancel_job(f).ret = "false" =>
             executor_cancel_job(f).container = container

\* C38: the connection manager maps no job id to an empty list, and a
\* websocket whose handler has returned, by completion, by a disconnect
\* of the client or by an error, is not registered for the job.
C38_NoEmptyListNoReturnedSubscriber ==
  /\ \A j \in DOMAIN active_connections : active_connections[j] # <<>>
  /\ \A w \in Sockets : ws[w].pc = "ended" => w \notin Registered(active_connections)

\* Both handlers have returned, one after the complete event and the other
\* without it, and a send of the manager has disconnected a websocket.
C38_Witness ==
  /\ \A w \in Sockets : ws[w].pc = "ended" /\ received[w] # <<>>
  /\ \E w \in Sockets : Complete(job) \in Range(received[w])
  /\ \E w \in Sockets : ~ws[w].alive
  /\ sending.pc = "idle"
  /\ sending.disconnected # <<>>
  /\ active_connections = NoConnections

\* C34: while a job runs, every line of output captured by the thread that
\* drains the sandbox's output has been published once to the log relay:
\* on_log has been called once for each line in log_buffer.
C34_CapturedLinesArePublished ==
  pc \in {"poll", "sleep", "done"} => published = log_buffer

\* The numbers of the lines of a log that are not blank, in order.
TextLines(lines) ==
  SelectSeq([k \in 1..Len(lines) |-> k], LAMBDA i : lines[i] = "text")

\* The numbers of the lines sent to websocket w as log events, in order.
DeliveredLines(w) ==
  LET logs == SelectSeq(received[w], LAMBDA e : e.type = "log")
  IN  [k \in 1..Len(logs) |-> logs[k].line]

\* The handler of w has returned after it sent the complete event.
Completed(w) ==
  /\ ws[w].pc = "ended"
  /\ received[w] # <<>>
  /\ received[w][Len(received[w])].type = "complete"

\* C33: a subscriber that connected while the job was running has, when
\* its handler returns after the complete event, been sent the lines the
\* job produced (those that are not blank) in the order they were
\* produced, none twice and none skipped.
C33_LinesInOrderOnceEach ==
  \A w \in Sockets :
    (Completed(w) /\ ws[w].initial_status = "running" /\ log_file # None) =>
      DeliveredLines(w) = TextLines(Get(log_file))

\* C32: two subscribers that connected while the job was running have, when
\* both handlers have returned after the complete event, been sent the
\* same sequence of lines, whenever each connected and however many lines
\* were printed when each began to poll.
C32_SameLinesForBothSubscribers ==
  \A v, w \in Sockets :
    (/\ Completed(v) /\ ws[v].initial_status = "running"
     /\ Completed(w) /\ ws[w].initial_status = "running") =>
      DeliveredLines(v) = DeliveredLines(w)

\* The handler of w found the job finished when it began, the client has
\* stayed, and the handler has returned.
LateSubscriberServed(w) ==
  /\ ws[w].pc = "ended"
  /\ ws[w].initial_status \in Terminal
  /\ ws[w].alive

\* The lines of the job's log file; none when there is no file.
PersistedLog == IF log_file = None THEN <<>> ELSE Get(log_file)

\* C31 as stated: a subscriber that connects after the job is terminal is
\* sent every line of the persisted log, in the order of the file, then one
\* complete event and nothing more.
C31_Original ==
  \A w \in Sockets :
    LateSubscriberServed(w) =>
      received[w] = <<Connected(ws[w].initial_status)>>
                    \o LogLines([k \in 1..Len(PersistedLog) |-> k])
                    \o <<CompleteLate(ws[w].initial_status)>>

\* C31 amended: such a subscriber is sent, after the confirmation of the
\* connection, every line of the persisted log that is not blank, in the
\* order of the file, then one complete event (with the status, without
\* exit code and duration) and nothing more; blank lines are not sent.
C31_LateSubscriberGetsReplay ==
  \A w \in Sockets :
    LateSubscriberServed(w) =>
      received[w] = <<Connected(ws[w].initial_status)>>
                    \o LogLines(TextLines(PersistedLog))
                    \o <<CompleteLate(ws[w].initial_status)>>

\* A late subscriber of a job run in a sandbox whose script printed a line
\* of text and a blank line.
C31_Witness ==
  \E w \in Sockets :
    /\ LateSubscriberServed(w)
    /\ job.container_id # None
    /\ PersistedLog = <<"text", "blank">>
    /\ DeliveredLines(w) = <<1>>
    /\ Completed(w)

====
